---- MODULE Spec2Model ----
(***************************************************************************)
(* Model of scripts/build_settlements_excel.py: the harvester of           *)
(* settlement names from two cached or fetched HTML pages.                 *)
(*                                                                         *)
(* Strings are sequences of Unicode code points (Python str), so that the  *)
(* regular expressions, str.strip, str.lower and the string order of the   *)
(* sort are computed on the characters the program sees.  The comment on a *)
(* string constant gives its text.                                         *)
(***************************************************************************)
EXTENDS Integers, Sequences, FiniteSets, TLC

VARIABLES
    out,        \* args.out: the path of the output spreadsheet
    html_dir,   \* args.html_dir: None, or the cache directory's path
    files,      \* environment: cache file name -> document, or Missing
    web,        \* environment: url -> document, or Missing (request fails)
    pc,         \* main's position: "loop", "done", "failed"
    idx,        \* main: index into WIKI_URLS of the next region
    frames,     \* main: the per-region frames collected so far
    out_file,   \* the file at args.out: Absent, Written or Partial
    err,        \* the exception that ended the run, or "None"
    loaded,     \* the regions load_html was called for, in call order
    candidates, \* column study: the header list given to settle_column_name
    col,        \* column study: the result of settle_column_name
    raw,        \* normalisation study: the record as harvested from a page
    norm,       \* normalisation study: the record after main's transforms
    passes,     \* normalisation study: number of normalisation passes done
    soup,       \* harvest study: the parsed document of one region
    hpc,        \* harvest study: harvest_region's position
    pairs,      \* harvest study: extract_tables_by_h3(soup)
    seg,        \* harvest study: index of the segment being harvested
    tab,        \* harvest study: index of the next table/list of the segment
    rows        \* harvest study: the rows appended so far

vars == <<out, html_dir, files, web, pc, idx, frames, out_file, err, loaded,
          candidates, col, raw, norm, passes, soup, hpc, pairs, seg, tab, rows>>

\* Python's None where a str may stand: no str holds the code point -1
None == <<-1>>

\* What the environment holds under a file name or url: a page (the sibling
\* sequence of its parsed markup), or nothing (open or the request fails)
Page(doc) == [ok |-> TRUE, html |-> doc]
Missing == [ok |-> FALSE, html |-> <<>>]

\* The output file: absent, or the rows written to its sheet
Absent == [exists |-> FALSE, whole |-> FALSE, rows |-> <<>>]
Written(rs) == [exists |-> TRUE, whole |-> TRUE, rows |-> rs]

\* The output file a failed write leaves: the file exists and is not the
\* whole workbook; rs are the rows that reached it
Partial(rs) == [exists |-> TRUE, whole |-> FALSE, rows |-> rs]

(***************************************************************************)
(* Python string primitives                                                *)
(***************************************************************************)

\* str.isspace / regex \s on str: the Unicode white space characters.
WhiteSpace ==
    {9, 10, 11, 12, 13, 28, 29, 30, 31, 32, 133, 160, 5760}
        \cup (8192..8202) \cup {8232, 8233, 8239, 8287, 12288}

IsSpace(c) == c \in WhiteSpace

\* Index of the first character of s at or after i that is not in S
\* (Len(s) + 1 when there is none).
SkipWhile(s, i, S) ==
    IF \E k \in i..Len(s) : s[k] \notin S
    THEN CHOOSE k \in i..Len(s) :
            /\ s[k] \notin S
            /\ \A j \in i..(k - 1) : s[j] \in S
    ELSE Len(s) + 1

\* str.strip()
strip(s) ==
    LET a == SkipWhile(s, 1, WhiteSpace)
    IN  IF a > Len(s) THEN <<>>
        ELSE LET b == CHOOSE k \in a..Len(s) :
                        /\ ~IsSpace(s[k])
                        /\ \A j \in (k + 1)..Len(s) : IsSpace(s[j])
             IN  SubSeq(s, a, b)

\* str.lower() on single characters, as the Unicode data of the interpreter
\* give it: <<first, last, step, delta>> stands for the code points first,
\* first + step, ..., last, each of which becomes the code point delta
\* further on.
LowerRanges ==
    {<<65, 90, 1, 32>>, <<192, 214, 1, 32>>, <<216, 222, 1, 32>>, <<256, 302, 2, 1>>,
     <<306, 310, 2, 1>>, <<313, 327, 2, 1>>, <<330, 374, 2, 1>>, <<376, 376, 1, -121>>,
     <<377, 381, 2, 1>>, <<385, 385, 1, 210>>, <<386, 388, 2, 1>>, <<390, 390, 1, 206>>,
     <<391, 391, 1, 1>>, <<393, 394, 1, 205>>, <<395, 395, 1, 1>>, <<398, 398, 1, 79>>,
     <<399, 399, 1, 202>>, <<400, 400, 1, 203>>, <<401, 401, 1, 1>>, <<403, 403, 1, 205>>,
     <<404, 404, 1, 207>>, <<406, 406, 1, 211>>, <<407, 407, 1, 209>>, <<408, 408, 1, 1>>,
     <<412, 412, 1, 211>>, <<413, 413, 1, 213>>, <<415, 415, 1, 214>>, <<416, 420, 2, 1>>,
     <<422, 422, 1, 218>>, <<423, 423, 1, 1>>, <<425, 425, 1, 218>>, <<428, 428, 1, 1>>,
     <<430, 430, 1, 218>>, <<431, 431, 1, 1>>, <<433, 434, 1, 217>>, <<435, 437, 2, 1>>,
     <<439, 439, 1, 219>>, <<440, 440, 1, 1>>, <<444, 444, 1, 1>>, <<452, 452, 1, 2>>,
     <<453, 453, 1, 1>>, <<455, 455, 1, 2>>, <<456, 456, 1, 1>>, <<458, 458, 1, 2>>,
     <<459, 475, 2, 1>>, <<478, 494, 2, 1>>, <<497, 497, 1, 2>>, <<498, 500, 2, 1>>,
     <<502, 502, 1, -97>>, <<503, 503, 1, -56>>, <<504, 542, 2, 1>>, <<544, 544, 1, -130>>,
     <<546, 562, 2, 1>>, <<570, 570, 1, 10795>>, <<571, 571, 1, 1>>, <<573, 573, 1, -163>>,
     <<574, 574, 1, 10792>>, <<577, 577, 1, 1>>, <<579, 579, 1, -195>>, <<580, 580, 1, 69>>,
     <<581, 581, 1, 71>>, <<582, 590, 2, 1>>, <<880, 882, 2, 1>>, <<886, 886, 1, 1>>,
     <<895, 895, 1, 116>>, <<902, 902, 1, 38>>, <<904, 906, 1, 37>>, <<908, 908, 1, 64>>,
     <<910, 911, 1, 63>>, <<913, 929, 1, 32>>, <<931, 939, 1, 32>>, <<975, 975, 1, 8>>,
     <<984, 1006, 2, 1>>, <<1012, 1012, 1, -60>>, <<1015, 1015, 1, 1>>, <<1017, 1017, 1, -7>>,
     <<1018, 1018, 1, 1>>, <<1021, 1023, 1, -130>>, <<1024, 1039, 1, 80>>, <<1040, 1071, 1, 32>>,
     <<1120, 1152, 2, 1>>, <<1162, 1214, 2, 1>>, <<1216, 1216, 1, 15>>, <<1217, 1229, 2, 1>>,
     <<1232, 1326, 2, 1>>, <<1329, 1366, 1, 48>>, <<4256, 4293, 1, 7264>>, <<4295, 4295, 1, 7264>>,
     <<4301, 4301, 1, 7264>>, <<5024, 5103, 1, 38864>>, <<5104, 5109, 1, 8>>, <<7312, 7354, 1, -3008>>,
     <<7357, 7359, 1, -3008>>, <<7680, 7828, 2, 1>>, <<7838, 7838, 1, -7615>>, <<7840, 7934, 2, 1>>,
     <<7944, 7951, 1, -8>>, <<7960, 7965, 1, -8>>, <<7976, 7983, 1, -8>>, <<7992, 7999, 1, -8>>,
     <<8008, 8013, 1, -8>>, <<8025, 8031, 2, -8>>, <<8040, 8047, 1, -8>>, <<8072, 8079, 1, -8>>,
     <<8088, 8095, 1, -8>>, <<8104, 8111, 1, -8>>, <<8120, 8121, 1, -8>>, <<8122, 8123, 1, -74>>,
     <<8124, 8124, 1, -9>>, <<8136, 8139, 1, -86>>, <<8140, 8140, 1, -9>>, <<8152, 8153, 1, -8>>,
     <<8154, 8155, 1, -100>>, <<8168, 8169, 1, -8>>, <<8170, 8171, 1, -112>>, <<8172, 8172, 1, -7>>,
     <<8184, 8185, 1, -128>>, <<8186, 8187, 1, -126>>, <<8188, 8188, 1, -9>>, <<8486, 8486, 1, -7517>>,
     <<8490, 8490, 1, -8383>>, <<8491, 8491, 1, -8262>>, <<8498, 8498, 1, 28>>, <<8544, 8559, 1, 16>>,
     <<8579, 8579, 1, 1>>, <<9398, 9423, 1, 26>>, <<11264, 11311, 1, 48>>, <<11360, 11360, 1, 1>>,
     <<11362, 11362, 1, -10743>>, <<11363, 11363, 1, -3814>>, <<11364, 11364, 1, -10727>>, <<11367, 11371, 2, 1>>,
     <<11373, 11373, 1, -10780>>, <<11374, 11374, 1, -10749>>, <<11375, 11375, 1, -10783>>, <<11376, 11376, 1, -10782>>,
     <<11378, 11378, 1, 1>>, <<11381, 11381, 1, 1>>, <<11390, 11391, 1, -10815>>, <<11392, 11490, 2, 1>>,
     <<11499, 11501, 2, 1>>, <<11506, 11506, 1, 1>>, <<42560, 42604, 2, 1>>, <<42624, 42650, 2, 1>>,
     <<42786, 42798, 2, 1>>, <<42802, 42862, 2, 1>>, <<42873, 42875, 2, 1>>, <<42877, 42877, 1, -35332>>,
     <<42878, 42886, 2, 1>>, <<42891, 42891, 1, 1>>, <<42893, 42893, 1, -42280>>, <<42896, 42898, 2, 1>>,
     <<42902, 42920, 2, 1>>, <<42922, 42922, 1, -42308>>, <<42923, 42923, 1, -42319>>, <<42924, 42924, 1, -42315>>,
     <<42925, 42925, 1, -42305>>, <<42926, 42926, 1, -42308>>, <<42928, 42928, 1, -42258>>, <<42929, 42929, 1, -42282>>,
     <<42930, 42930, 1, -42261>>, <<42931, 42931, 1, 928>>, <<42932, 42946, 2, 1>>, <<42948, 42948, 1, -48>>,
     <<42949, 42949, 1, -42307>>, <<42950, 42950, 1, -35384>>, <<42951, 42953, 2, 1>>, <<42960, 42960, 1, 1>>,
     <<42966, 42968, 2, 1>>, <<42997, 42997, 1, 1>>, <<65313, 65338, 1, 32>>, <<66560, 66599, 1, 40>>,
     <<66736, 66771, 1, 40>>, <<66928, 66938, 1, 39>>, <<66940, 66954, 1, 39>>, <<66956, 66962, 1, 39>>,
     <<66964, 66965, 1, 39>>, <<68736, 68786, 1, 64>>, <<71840, 71871, 1, 32>>, <<93760, 93791, 1, 32>>,
     <<125184, 125217, 1, 34>>}

\* The case-ignorable characters (Unicode Case_Ignorable), as <<first, last>>
IgnorableRanges ==
    {<<39, 39>>, <<46, 46>>, <<58, 58>>, <<94, 94>>, <<96, 96>>,
     <<168, 168>>, <<173, 173>>, <<175, 175>>, <<180, 180>>, <<183, 184>>,
     <<688, 879>>, <<884, 885>>, <<890, 890>>, <<900, 901>>, <<903, 903>>,
     <<1155, 1161>>, <<1369, 1369>>, <<1375, 1375>>, <<1425, 1469>>, <<1471, 1471>>,
     <<1473, 1474>>, <<1476, 1477>>, <<1479, 1479>>, <<1524, 1524>>, <<1536, 1541>>,
     <<1552, 1562>>, <<1564, 1564>>, <<1600, 1600>>, <<1611, 1631>>, <<1648, 1648>>,
     <<1750, 1757>>, <<1759, 1768>>, <<1770, 1773>>, <<1807, 1807>>, <<1809, 1809>>,
     <<1840, 1866>>, <<1958, 1968>>, <<2027, 2037>>, <<2042, 2042>>, <<2045, 2045>>,
     <<2070, 2093>>, <<2137, 2139>>, <<2184, 2184>>, <<2192, 2193>>, <<2200, 2207>>,
     <<2249, 2306>>, <<2362, 2362>>, <<2364, 2364>>, <<2369, 2376>>, <<2381, 2381>>,
     <<2385, 2391>>, <<2402, 2403>>, <<2417, 2417>>, <<2433, 2433>>, <<2492, 2492>>,
     <<2497, 2500>>, <<2509, 2509>>, <<2530, 2531>>, <<2558, 2558>>, <<2561, 2562>>,
     <<2620, 2620>>, <<2625, 2626>>, <<2631, 2632>>, <<2635, 2637>>, <<2641, 2641>>,
     <<2672, 2673>>, <<2677, 2677>>, <<2689, 2690>>, <<2748, 2748>>, <<2753, 2757>>,
     <<2759, 2760>>, <<2765, 2765>>, <<2786, 2787>>, <<2810, 2815>>, <<2817, 2817>>,
     <<2876, 2876>>, <<2879, 2879>>, <<2881, 2884>>, <<2893, 2893>>, <<2901, 2902>>,
     <<2914, 2915>>, <<2946, 2946>>, <<3008, 3008>>, <<3021, 3021>>, <<3072, 3072>>,
     <<3076, 3076>>, <<3132, 3132>>, <<3134, 3136>>, <<3142, 3144>>, <<3146, 3149>>,
     <<3157, 3158>>, <<3170, 3171>>, <<3201, 3201>>, <<3260, 3260>>, <<3263, 3263>>,
     <<3270, 3270>>, <<3276, 3277>>, <<3298, 3299>>, <<3328, 3329>>, <<3387, 3388>>,
     <<3393, 3396>>, <<3405, 3405>>, <<3426, 3427>>, <<3457, 3457>>, <<3530, 3530>>,
     <<3538, 3540>>, <<3542, 3542>>, <<3633, 3633>>, <<3636, 3642>>, <<3654, 3662>>,
     <<3761, 3761>>, <<3764, 3772>>, <<3782, 3782>>, <<3784, 3789>>, <<3864, 3865>>,
     <<3893, 3893>>, <<3895, 3895>>, <<3897, 3897>>, <<3953, 3966>>, <<3968, 3972>>,
     <<3974, 3975>>, <<3981, 3991>>, <<3993, 4028>>, <<4038, 4038>>, <<4141, 4144>>,
     <<4146, 4151>>, <<4153, 4154>>, <<4157, 4158>>, <<4184, 4185>>, <<4190, 4192>>,
     <<4209, 4212>>, <<4226, 4226>>, <<4229, 4230>>, <<4237, 4237>>, <<4253, 4253>>,
     <<4348, 4348>>, <<4957, 4959>>, <<5906, 5908>>, <<5938, 5939>>, <<5970, 5971>>,
     <<6002, 6003>>, <<6068, 6069>>, <<6071, 6077>>, <<6086, 6086>>, <<6089, 6099>>,
     <<6103, 6103>>, <<6109, 6109>>, <<6155, 6159>>, <<6211, 6211>>, <<6277, 6278>>,
     <<6313, 6313>>, <<6432, 6434>>, <<6439, 6440>>, <<6450, 6450>>, <<6457, 6459>>,
     <<6679, 6680>>, <<6683, 6683>>, <<6742, 6742>>, <<6744, 6750>>, <<6752, 6752>>,
     <<6754, 6754>>, <<6757, 6764>>, <<6771, 6780>>, <<6783, 6783>>, <<6823, 6823>>,
     <<6832, 6862>>, <<6912, 6915>>, <<6964, 6964>>, <<6966, 6970>>, <<6972, 6972>>,
     <<6978, 6978>>, <<7019, 7027>>, <<7040, 7041>>, <<7074, 7077>>, <<7080, 7081>>,
     <<7083, 7085>>, <<7142, 7142>>, <<7144, 7145>>, <<7149, 7149>>, <<7151, 7153>>,
     <<7212, 7219>>, <<7222, 7223>>, <<7288, 7293>>, <<7376, 7378>>, <<7380, 7392>>,
     <<7394, 7400>>, <<7405, 7405>>, <<7412, 7412>>, <<7416, 7417>>, <<7468, 7530>>,
     <<7544, 7544>>, <<7579, 7679>>, <<8125, 8125>>, <<8127, 8129>>, <<8141, 8143>>,
     <<8157, 8159>>, <<8173, 8175>>, <<8189, 8190>>, <<8203, 8207>>, <<8216, 8217>>,
     <<8228, 8228>>, <<8231, 8231>>, <<8234, 8238>>, <<8288, 8292>>, <<8294, 8303>>,
     <<8305, 8305>>, <<8319, 8319>>, <<8336, 8348>>, <<8400, 8432>>, <<11388, 11389>>,
     <<11503, 11505>>, <<11631, 11631>>, <<11647, 11647>>, <<11744, 11775>>, <<11823, 11823>>,
     <<12293, 12293>>, <<12330, 12333>>, <<12337, 12341>>, <<12347, 12347>>, <<12441, 12446>>,
     <<12540, 12542>>, <<40981, 40981>>, <<42232, 42237>>, <<42508, 42508>>, <<42607, 42610>>,
     <<42612, 42621>>, <<42623, 42623>>, <<42652, 42655>>, <<42736, 42737>>, <<42752, 42785>>,
     <<42864, 42864>>, <<42888, 42890>>, <<42994, 42996>>, <<43000, 43001>>, <<43010, 43010>>,
     <<43014, 43014>>, <<43019, 43019>>, <<43045, 43046>>, <<43052, 43052>>, <<43204, 43205>>,
     <<43232, 43249>>, <<43263, 43263>>, <<43302, 43309>>, <<43335, 43345>>, <<43392, 43394>>,
     <<43443, 43443>>, <<43446, 43449>>, <<43452, 43453>>, <<43471, 43471>>, <<43493, 43494>>,
     <<43561, 43566>>, <<43569, 43570>>, <<43573, 43574>>, <<43587, 43587>>, <<43596, 43596>>,
     <<43632, 43632>>, <<43644, 43644>>, <<43696, 43696>>, <<43698, 43700>>, <<43703, 43704>>,
     <<43710, 43711>>, <<43713, 43713>>, <<43741, 43741>>, <<43756, 43757>>, <<43763, 43764>>,
     <<43766, 43766>>, <<43867, 43871>>, <<43881, 43883>>, <<44005, 44005>>, <<44008, 44008>>,
     <<44013, 44013>>, <<64286, 64286>>, <<64434, 64450>>, <<65024, 65039>>, <<65043, 65043>>,
     <<65056, 65071>>, <<65106, 65106>>, <<65109, 65109>>, <<65279, 65279>>, <<65287, 65287>>,
     <<65294, 65294>>, <<65306, 65306>>, <<65342, 65342>>, <<65344, 65344>>, <<65392, 65392>>,
     <<65438, 65439>>, <<65507, 65507>>, <<65529, 65531>>, <<66045, 66045>>, <<66272, 66272>>,
     <<66422, 66426>>, <<67456, 67461>>, <<67463, 67504>>, <<67506, 67514>>, <<68097, 68099>>,
     <<68101, 68102>>, <<68108, 68111>>, <<68152, 68154>>, <<68159, 68159>>, <<68325, 68326>>,
     <<68900, 68903>>, <<69291, 69292>>, <<69446, 69456>>, <<69506, 69509>>, <<69633, 69633>>,
     <<69688, 69702>>, <<69744, 69744>>, <<69747, 69748>>, <<69759, 69761>>, <<69811, 69814>>,
     <<69817, 69818>>, <<69821, 69821>>, <<69826, 69826>>, <<69837, 69837>>, <<69888, 69890>>,
     <<69927, 69931>>, <<69933, 69940>>, <<70003, 70003>>, <<70016, 70017>>, <<70070, 70078>>,
     <<70089, 70092>>, <<70095, 70095>>, <<70191, 70193>>, <<70196, 70196>>, <<70198, 70199>>,
     <<70206, 70206>>, <<70367, 70367>>, <<70371, 70378>>, <<70400, 70401>>, <<70459, 70460>>,
     <<70464, 70464>>, <<70502, 70508>>, <<70512, 70516>>, <<70712, 70719>>, <<70722, 70724>>,
     <<70726, 70726>>, <<70750, 70750>>, <<70835, 70840>>, <<70842, 70842>>, <<70847, 70848>>,
     <<70850, 70851>>, <<71090, 71093>>, <<71100, 71101>>, <<71103, 71104>>, <<71132, 71133>>,
     <<71219, 71226>>, <<71229, 71229>>, <<71231, 71232>>, <<71339, 71339>>, <<71341, 71341>>,
     <<71344, 71349>>, <<71351, 71351>>, <<71453, 71455>>, <<71458, 71461>>, <<71463, 71467>>,
     <<71727, 71735>>, <<71737, 71738>>, <<71995, 71996>>, <<71998, 71998>>, <<72003, 72003>>,
     <<72148, 72151>>, <<72154, 72155>>, <<72160, 72160>>, <<72193, 72202>>, <<72243, 72248>>,
     <<72251, 72254>>, <<72263, 72263>>, <<72273, 72278>>, <<72281, 72283>>, <<72330, 72342>>,
     <<72344, 72345>>, <<72752, 72758>>, <<72760, 72765>>, <<72767, 72767>>, <<72850, 72871>>,
     <<72874, 72880>>, <<72882, 72883>>, <<72885, 72886>>, <<73009, 73014>>, <<73018, 73018>>,
     <<73020, 73021>>, <<73023, 73029>>, <<73031, 73031>>, <<73104, 73105>>, <<73109, 73109>>,
     <<73111, 73111>>, <<73459, 73460>>, <<78896, 78904>>, <<92912, 92916>>, <<92976, 92982>>,
     <<92992, 92995>>, <<94031, 94031>>, <<94095, 94111>>, <<94176, 94177>>, <<94179, 94180>>,
     <<110576, 110579>>, <<110581, 110587>>, <<110589, 110590>>, <<113821, 113822>>, <<113824, 113827>>,
     <<118528, 118573>>, <<118576, 118598>>, <<119143, 119145>>, <<119155, 119170>>, <<119173, 119179>>,
     <<119210, 119213>>, <<119362, 119364>>, <<121344, 121398>>, <<121403, 121452>>, <<121461, 121461>>,
     <<121476, 121476>>, <<121499, 121503>>, <<121505, 121519>>, <<122880, 122886>>, <<122888, 122904>>,
     <<122907, 122913>>, <<122915, 122916>>, <<122918, 122922>>, <<123184, 123197>>, <<123566, 123566>>,
     <<123628, 123631>>, <<125136, 125142>>, <<125252, 125259>>, <<127995, 127999>>, <<917505, 917505>>,
     <<917536, 917631>>, <<917760, 917999>>}

\* The cased characters (Unicode Cased) that are not case-ignorable, as
\* <<first, last>>
CasedRanges ==
    {<<65, 90>>, <<97, 122>>, <<170, 170>>, <<181, 181>>, <<186, 186>>,
     <<192, 214>>, <<216, 246>>, <<248, 442>>, <<444, 447>>, <<452, 659>>,
     <<661, 687>>, <<880, 883>>, <<886, 887>>, <<891, 893>>, <<895, 895>>,
     <<902, 902>>, <<904, 906>>, <<908, 908>>, <<910, 929>>, <<931, 1013>>,
     <<1015, 1153>>, <<1162, 1327>>, <<1329, 1366>>, <<1376, 1416>>, <<4256, 4293>>,
     <<4295, 4295>>, <<4301, 4301>>, <<4304, 4346>>, <<4349, 4351>>, <<5024, 5109>>,
     <<5112, 5117>>, <<7296, 7304>>, <<7312, 7354>>, <<7357, 7359>>, <<7424, 7467>>,
     <<7531, 7543>>, <<7545, 7578>>, <<7680, 7957>>, <<7960, 7965>>, <<7968, 8005>>,
     <<8008, 8013>>, <<8016, 8023>>, <<8025, 8025>>, <<8027, 8027>>, <<8029, 8029>>,
     <<8031, 8061>>, <<8064, 8116>>, <<8118, 8124>>, <<8126, 8126>>, <<8130, 8132>>,
     <<8134, 8140>>, <<8144, 8147>>, <<8150, 8155>>, <<8160, 8172>>, <<8178, 8180>>,
     <<8182, 8188>>, <<8450, 8450>>, <<8455, 8455>>, <<8458, 8467>>, <<8469, 8469>>,
     <<8473, 8477>>, <<8484, 8484>>, <<8486, 8486>>, <<8488, 8488>>, <<8490, 8493>>,
     <<8495, 8500>>, <<8505, 8505>>, <<8508, 8511>>, <<8517, 8521>>, <<8526, 8526>>,
     <<8544, 8575>>, <<8579, 8580>>, <<9398, 9449>>, <<11264, 11387>>, <<11390, 11492>>,
     <<11499, 11502>>, <<11506, 11507>>, <<11520, 11557>>, <<11559, 11559>>, <<11565, 11565>>,
     <<42560, 42605>>, <<42624, 42651>>, <<42786, 42863>>, <<42865, 42887>>, <<42891, 42894>>,
     <<42896, 42954>>, <<42960, 42961>>, <<42963, 42963>>, <<42965, 42969>>, <<42997, 42998>>,
     <<43002, 43002>>, <<43824, 43866>>, <<43872, 43880>>, <<43888, 43967>>, <<64256, 64262>>,
     <<64275, 64279>>, <<65313, 65338>>, <<65345, 65370>>, <<66560, 66639>>, <<66736, 66771>>,
     <<66776, 66811>>, <<66928, 66938>>, <<66940, 66954>>, <<66956, 66962>>, <<66964, 66965>>,
     <<66967, 66977>>, <<66979, 66993>>, <<66995, 67001>>, <<67003, 67004>>, <<68736, 68786>>,
     <<68800, 68850>>, <<71840, 71903>>, <<93760, 93823>>, <<119808, 119892>>, <<119894, 119964>>,
     <<119966, 119967>>, <<119970, 119970>>, <<119973, 119974>>, <<119977, 119980>>, <<119982, 119993>>,
     <<119995, 119995>>, <<119997, 120003>>, <<120005, 120069>>, <<120071, 120074>>, <<120077, 120084>>,
     <<120086, 120092>>, <<120094, 120121>>, <<120123, 120126>>, <<120128, 120132>>, <<120134, 120134>>,
     <<120138, 120144>>, <<120146, 120485>>, <<120488, 120512>>, <<120514, 120538>>, <<120540, 120570>>,
     <<120572, 120596>>, <<120598, 120628>>, <<120630, 120654>>, <<120656, 120686>>, <<120688, 120712>>,
     <<120714, 120744>>, <<120746, 120770>>, <<120772, 120779>>, <<122624, 122633>>, <<122635, 122654>>,
     <<125184, 125251>>, <<127280, 127305>>, <<127312, 127337>>, <<127344, 127369>>}

InRanges(c, ranges) == \E r \in ranges : r[1] <= c /\ c <= r[2]

CaseIgnorable(c) == InRanges(c, IgnorableRanges)

Cased(c) == InRanges(c, CasedRanges)

\* The lower-case counterpart of a character that has one of its own length
lower_code(c) ==
    LET hits == {r \in LowerRanges :
                    r[1] <= c /\ c <= r[2] /\ (c - r[1]) % r[3] = 0}
    IN  IF hits = {} THEN c ELSE c + (CHOOSE r \in hits : TRUE)[4]

\* lower_code on Basic Latin to Cyrillic Supplement, computed once
LowerTable == [c \in 0..1327 |-> lower_code(c)]

\* chr(c).lower(): "İ" (U+0130) becomes "i" and a combining dot above
lower_char(c) ==
    IF c = 304 THEN <<105, 775>>
    ELSE IF c \in DOMAIN LowerTable THEN <<LowerTable[c]>>
    ELSE <<lower_code(c)>>

\* str.lower() on "Σ" (U+03A3) at index i of s: the final form "ς" when a
\* cased character precedes it and none follows it, case-ignorable
\* characters being skipped on both sides
final_sigma(s, i) ==
    LET before == {j \in 1..(i - 1) : ~CaseIgnorable(s[j])}
        after == {j \in (i + 1)..Len(s) : ~CaseIgnorable(s[j])}
    IN  /\ before # {}
        /\ Cased(s[CHOOSE j \in before : \A k \in before : k <= j])
        /\ \/ after = {}
           \/ ~Cased(s[CHOOSE j \in after : \A k \in after : j <= k])

\* The characters the character at index i of s becomes in s.lower()
lower_at(s, i) ==
    IF s[i] = 931 THEN <<IF final_sigma(s, i) THEN 962 ELSE 963>>
    ELSE lower_char(s[i])

\* list(...): the sequence with its elements computed, once
tolist(s) == s \o <<>>

\* The sequences of ss one after the other
RECURSIVE Concat(_)
Concat(ss) == IF ss = <<>> THEN <<>> ELSE Head(ss) \o Concat(Tail(ss))

\* str.lower()
lower(s) ==
    IF \E i \in 1..Len(s) : s[i] = 304
    THEN Concat([i \in 1..Len(s) |-> lower_at(s, i)])
    ELSE tolist([i \in 1..Len(s) |-> lower_at(s, i)[1]])

\* sub is a substring of s starting at index i
MatchAt(s, i, sub) ==
    /\ i >= 1
    /\ i + Len(sub) - 1 <= Len(s)
    /\ \A k \in 1..Len(sub) : s[i + k - 1] = sub[k]

\* Python's  sub in s
Contains(s, sub) == \E i \in 1..(Len(s) - Len(sub) + 1) : MatchAt(s, i, sub)

\* Python's str comparison  a < b  (code point order)
StrLess(a, b) ==
    LET n == IF Len(a) < Len(b) THEN Len(a) ELSE Len(b)
        diff == {k \in 1..n : a[k] # b[k]}
    IN  IF diff = {} THEN Len(a) < Len(b)
        ELSE LET k == CHOOSE k \in diff : \A j \in diff : k <= j
             IN  a[k] < b[k]

\* re.sub(r"\[[^\]]*\]", "", s), scanning from index i: the leftmost "[" that
\* a "]" follows opens a match, which ends at the first "]" after it
RECURSIVE sub_footnote_from(_, _)
sub_footnote_from(s, i) ==
    LET opens == {k \in i..Len(s) :
                    s[k] = 91 /\ \E j \in (k + 1)..Len(s) : s[j] = 93}
    IN  IF opens = {} THEN SubSeq(s, i, Len(s))
        ELSE LET a == CHOOSE k \in opens : \A j \in opens : k <= j
                 closes == {j \in (a + 1)..Len(s) : s[j] = 93}
                 e == CHOOSE j \in closes : \A k \in closes : j <= k
             IN  SubSeq(s, i, a - 1) \o sub_footnote_from(s, e + 1)

sub_footnote(s) == sub_footnote_from(s, 1)

(***************************************************************************)
(* Normalisation                                                           *)
(***************************************************************************)

\* normalize_unit_title: strip, then re.sub(r'^[#\s]+', '', t)
normalize_unit_title(h_tag_text) ==
    LET t == strip(h_tag_text)
        a == SkipWhile(t, 1, WhiteSpace \cup {35})
    IN  SubSeq(t, a, Len(t))

gorod == <<1075, 1086, 1088, 1086, 1076>>            \* "город"
kurort == <<1082, 1091, 1088, 1086, 1088, 1090>>     \* "курорт"

\* s with a leading match of  ^\s*<words...>\s+  removed, where `tokens` is
\* the sequence of literal words and `optional` the set of indices of the
\* words that may be absent (the pattern's "-?").
RECURSIVE MatchWords(_, _, _, _)
MatchWords(s, i, tokens, optional) ==
    \* index after the match of the words from index i, or 0
    IF tokens = <<>> THEN i
    ELSE LET w == Head(tokens)
             rest == Tail(tokens)
             opt == {k - 1 : k \in optional \ {1}}
             with == IF MatchAt(s, i, w)
                     THEN MatchWords(s, i + Len(w), rest, opt)
                     ELSE 0
         IN  IF with # 0 THEN with
             ELSE IF 1 \in optional THEN MatchWords(s, i, rest, opt)
             ELSE 0

sub_prefix(s, tokens, optional) ==
    LET a == SkipWhile(s, 1, WhiteSpace)
        b == MatchWords(s, a, tokens, optional)
    IN  IF b # 0 /\ b <= Len(s) /\ IsSpace(s[b])
        THEN SubSeq(s, SkipWhile(s, b, WhiteSpace), Len(s))
        ELSE s

\* main, line 147: str.replace(r"^\s*город-?курорт\s+", "", regex=True)
strip_resort_prefix(d) == sub_prefix(d, <<gorod, <<45>>, kurort>>, {2})

\* A replacement of the city prefix that also drops a trailing " (...)"
strip_city_prefix_and_suffix(d) ==
    LET s == sub_prefix(d, <<gorod>>, {})
        opens == {i \in 2..Len(s) : s[i] = 40 /\ IsSpace(s[i - 1])}
    IN  IF s # <<>> /\ s[Len(s)] = 41 /\ opens # {}
        THEN strip(SubSeq(s, 1, (CHOOSE i \in opens : \A j \in opens : i <= j) - 1))
        ELSE s

\* main, line 148: str.replace(r"^\s*город\s+", "", regex=True)
strip_city_prefix(d) == sub_prefix(d, <<gorod>>, {})

\* The end positions a match of  \)$  may have in s: the last character, or
\* the one before a final line feed.
DollarEnds(s) ==
    {e \in {Len(s) - 1, Len(s)} :
        /\ e >= 1
        /\ s[e] = 41
        /\ (e = Len(s) - 1 => s[Len(s)] = 10)}

\* A match of  \s+\(.*?\)$  starts at i and ends at e.
ParenMatch(s, i, e) ==
    /\ IsSpace(s[i])
    /\ LET j == SkipWhile(s, i, WhiteSpace)
       IN  /\ j < e
           /\ s[j] = 40
           /\ \A k \in (j + 1)..(e - 1) : s[k] # 10

\* main, line 149: str.replace(r"\s+\(.*?\)$", "", regex=True)
strip_parenthetical(s) ==
    LET starts == {i \in 1..Len(s) : \E e \in DollarEnds(s) : ParenMatch(s, i, e)}
    IN  IF starts = {} THEN s
        ELSE LET i == CHOOSE i \in starts : \A k \in starts : i <= k
                 ends == {e \in DollarEnds(s) : ParenMatch(s, i, e)}
                 e == CHOOSE e \in ends : \A k \in ends : e <= k
             IN  SubSeq(s, 1, i - 1) \o SubSeq(s, e + 1, Len(s))

\* main, lines 147-149, on one row
main_normalize(r) ==
    [region |-> r.region,
     district |-> strip_city_prefix(strip_resort_prefix(r.district)),
     settlement |-> strip_parenthetical(r.settlement)]

(***************************************************************************)
(* Documents.  A parsed page is the sequence of sibling elements that      *)
(* find_next_sibling walks.  An element is a record                        *)
(*   name     tag name: "h2", "h3", "table", "ul" or "p"                   *)
(*   text     h3: get_text(" ", strip=True)                                *)
(*   caption  table: the caption's text ("" without a caption)             *)
(*   th       table: the text of its first th cell, or None                *)
(*   columns  table: df.columns.astype(str) as pandas reads the table      *)
(*   data     table: the rows of df, every cell as str                     *)
(*   parses   table: pd.read_html returns a frame (does not raise)         *)
(*   items    ul: the text of each direct li child                         *)
(***************************************************************************)

Element(name, text, caption, th, columns, data, parses, items) ==
    [name |-> name, text |-> text, caption |-> caption, th |-> th,
     columns |-> columns, data |-> data, parses |-> parses, items |-> items]

H2 == Element("h2", <<>>, <<>>, None, <<>>, <<>>, FALSE, <<>>)
P == Element("p", <<>>, <<>>, None, <<>>, <<>>, FALSE, <<>>)
H3(title) == Element("h3", title, <<>>, None, <<>>, <<>>, FALSE, <<>>)
Table(caption, th, columns, data, parses) ==
    Element("table", <<>>, caption, th, columns, data, parses, <<>>)
Ul(items) == Element("ul", <<>>, <<>>, None, <<>>, <<>>, FALSE, items)

Spisok_nasel == <<1057, 1087, 1080, 1089, 1086, 1082, 32, 1085, 1072, 1089, 1077, 1083>>   \* "Список насел"
Nasel == <<1053, 1072, 1089, 1077, 1083>>                                  \* "Насел"
Nazvanie == <<1053, 1072, 1079, 1074, 1072, 1085, 1080, 1077>>             \* "Название"
Naimenovanie == <<1053, 1072, 1080, 1084, 1077, 1085, 1086, 1074, 1072, 1085, 1080, 1077>>  \* "Наименование"

\* extract_tables_by_h3, lines 65-74: the table is one of settlements
table_cond(node) ==
    \/ Contains(node.caption, Spisok_nasel)
    \/ /\ node.th # None
       /\ \/ Contains(node.th, Nasel)
          \/ Contains(node.th, Nazvanie)
          \/ Contains(node.th, Naimenovanie)

\* extract_tables_by_h3, lines 81-82: the items of a ul
ul_items(node) ==
    LET keep(it) == Len(strip(it)) > 0
        kept == SelectSeq(node.items, keep)
    IN  [k \in 1..Len(kept) |-> strip(sub_footnote(kept[k]))]

\* A walk that ends at the next h3 alone
RECURSIVE sibling_walk_past_h2(_, _, _, _)
sibling_walk_past_h2(soup_, n, dfs, ul_lists) ==
    IF n + 1 > Len(soup_) THEN <<dfs, ul_lists>>
    ELSE LET node == soup_[n + 1]
         IN  IF node.name = "h3" THEN <<dfs, ul_lists>>
             ELSE sibling_walk_past_h2(soup_, n + 1,
                    IF node.name = "table" /\ table_cond(node) /\ node.parses
                    THEN Append(dfs, [columns |-> node.columns, data |-> node.data])
                    ELSE dfs,
                    IF node.name = "ul" /\ ul_items(node) # <<>>
                    THEN Append(ul_lists, ul_items(node))
                    ELSE ul_lists)

\* extract_tables_by_h3, lines 58-84: the walk over the siblings that follow
\* index n, with the frames and lists collected so far
RECURSIVE sibling_walk(_, _, _, _)
sibling_walk(soup_, n, dfs, ul_lists) ==
    IF n + 1 > Len(soup_) THEN <<dfs, ul_lists>>
    ELSE LET node == soup_[n + 1]
         IN  IF node.name \in {"h2", "h3"} THEN <<dfs, ul_lists>>
             ELSE IF node.name = "table"
             THEN sibling_walk(soup_, n + 1,
                    IF table_cond(node) /\ node.parses
                    THEN Append(dfs, [columns |-> node.columns, data |-> node.data])
                    ELSE dfs,
                    ul_lists)
             ELSE IF node.name = "ul"
             THEN LET items == ul_items(node)
                  IN  sibling_walk(soup_, n + 1, dfs,
                        IF items # <<>> THEN Append(ul_lists, items)
                        ELSE ul_lists)
             ELSE sibling_walk(soup_, n + 1, dfs, ul_lists)

\* extract_tables_by_h3, from the element at index k on
RECURSIVE extract_from(_, _)
extract_from(soup_, k) ==
    IF k > Len(soup_) THEN <<>>
    ELSE IF soup_[k].name = "h3"
    THEN LET w == sibling_walk(soup_, k, <<>>, <<>>)
         IN  (IF w[1] # <<>> \/ w[2] # <<>>
              THEN <<[title |-> soup_[k].text, dfs |-> w[1], ul_lists |-> w[2]]>>
              ELSE <<>>) \o extract_from(soup_, k + 1)
    ELSE extract_from(soup_, k + 1)

extract_tables_by_h3(soup_) == extract_from(soup_, 1)

(***************************************************************************)
(* Column choice                                                           *)
(***************************************************************************)

nasel == <<1085, 1072, 1089, 1077, 1083>>     \* "насел"
punkt == <<1087, 1091, 1085, 1082, 1090>>     \* "пункт"
nazv == <<1085, 1072, 1079, 1074>>            \* "назв"

\* ("населённый пункт", "населенный пункт", "населённые пункты")
SettlementHeaders ==
    {<<1085, 1072, 1089, 1077, 1083, 1105, 1085, 1085, 1099, 1081, 32, 1087, 1091, 1085, 1082, 1090>>,
     <<1085, 1072, 1089, 1077, 1083, 1077, 1085, 1085, 1099, 1081, 32, 1087, 1091, 1085, 1082, 1090>>,
     <<1085, 1072, 1089, 1077, 1083, 1105, 1085, 1085, 1099, 1077, 32, 1087, 1091, 1085, 1082, 1090, 1099>>}

\* ("название", "наименование")
NameHeaders ==
    {<<1085, 1072, 1079, 1074, 1072, 1085, 1080, 1077>>,
     <<1085, 1072, 1080, 1084, 1077, 1085, 1086, 1074, 1072, 1085, 1080, 1077>>}

\* settle_column_name, lines 91-97: the tests of the first loop
strong_match(c) ==
    LET c_norm == strip(lower(c))
    IN  \/ Contains(c_norm, nasel) /\ Contains(c_norm, punkt)
        \/ c_norm \in SettlementHeaders
        \/ c_norm \in NameHeaders

\* settle_column_name, line 99: the test of the second loop
loose_match(c) == Contains(lower(c), punkt) \/ Contains(lower(c), nazv)

\* Python's  for c in s: if test(c): return c   (None when the loop ends)
FirstAt(s, hits) ==
    IF hits = {} THEN None
    ELSE s[CHOOSE k \in hits : \A j \in hits : k <= j]

FirstThat(s, test(_)) == FirstAt(s, {k \in 1..Len(s) : test(s[k])})

\* a, or b when a is None
OrElse(a, b) == IF a # None THEN a ELSE b

\* settle_column_name, lines 89-101: the first header that passes the tests
\* of the first loop, else the first that passes the test of the second
settle_column_name(cands) ==
    OrElse(FirstThat(cands, strong_match), FirstThat(cands, loose_match))

(***************************************************************************)
(* Harvest of one region                                                   *)
(***************************************************************************)

Dash == <<8212>>     \* "—"

\* The row dict of lines 123 and 130
Row(region_name, unit, name) ==
    [region |-> region_name, district |-> unit, settlement |-> name]

\* A choice of column that falls back on the first column
name_column_first(df) ==
    OrElse(settle_column_name(df.columns),
           IF Len(df.columns) >= 2 THEN df.columns[1] ELSE None)

\* harvest_region, lines 112-117: the column of the names, or None when the
\* frame is skipped
name_column(df) ==
    OrElse(settle_column_name(df.columns),
           IF Len(df.columns) >= 2 THEN df.columns[2] ELSE None)

\* df[col].astype(str).tolist(); no value when the frame is skipped
column_values(df, c) ==
    IF c = None THEN <<>>
    ELSE LET k == CHOOSE k \in 1..Len(df.columns) :
                    /\ df.columns[k] = c
                    /\ \A j \in 1..(k - 1) : df.columns[j] # c
         IN  [r \in 1..Len(df.data) |-> df.data[r][k]]

\* harvest_region, line 119, on every value
stripped(vals) == [k \in 1..Len(vals) |-> strip(vals[k])]

\* harvest_region, lines 120-121: the names that pass the test
named(names) == SelectSeq(names, LAMBDA name : name # <<>> /\ name # Dash)

\* harvest_region, line 122, on every name kept
without_footnotes(kept) == [k \in 1..Len(kept) |-> strip(sub_footnote(kept[k]))]

\* harvest_region, lines 118-123: the names a frame yields
table_names(df) ==
    without_footnotes(named(stripped(column_values(df, name_column(df)))))

\* harvest_region, line 128
MaxItemLen == 100

\* harvest_region, lines 125-130: the names a list yields
list_names(items) ==
    LET keep(name) == name # <<>> /\ name # Dash /\ ~(Len(name) > MaxItemLen)
    IN  SelectSeq(items, keep)

\* harvest_region, lines 123 and 130: one row for every name
rows_of(region_name, unit, names) ==
    [k \in 1..Len(names) |-> Row(region_name, unit, names[k])]

\* harvest_region, lines 111-123: the rows appended for one frame
table_rows(region_name, unit, df) == rows_of(region_name, unit, table_names(df))

\* harvest_region, lines 124-130: the rows appended for one list
list_rows(region_name, unit, items) == rows_of(region_name, unit, list_names(items))

\* harvest_region, lines 111-130: the rows of one segment, its district given
unit_rows(region_name, unit, pair) ==
    Concat([k \in 1..Len(pair.dfs) |->
                table_rows(region_name, unit, pair.dfs[k])])
    \o Concat([k \in 1..Len(pair.ul_lists) |->
                list_rows(region_name, unit, pair.ul_lists[k])])

\* harvest_region, lines 110-130: the rows of one (title, tables, lists)
segment_rows(region_name, pair) ==
    unit_rows(region_name, normalize_unit_title(pair.title), pair)

\* DataFrame.drop_duplicates(): the first occurrence of every row is kept
drop_duplicates(rs) ==
    LET first(k) == \A j \in 1..(k - 1) : rs[j] # rs[k]
        F[k \in 0..Len(rs)] ==
            IF k = 0 THEN <<>>
            ELSE IF first(k) THEN Append(F[k - 1], rs[k]) ELSE F[k - 1]
    IN  F[Len(rs)]

\* harvest_region, lines 109-130: the rows of all segments
pairs_rows(region_name, ps) ==
    Concat([k \in 1..Len(ps) |-> segment_rows(region_name, ps[k])])

\* harvest_region, lines 105-133, on the loaded page
harvest_region(region_name, html) ==
    drop_duplicates(pairs_rows(region_name, extract_tables_by_h3(html)))

(***************************************************************************)
(* main                                                                    *)
(***************************************************************************)

\* sort_values' key of a row: the three columns, lower-cased
sort_key(r) == <<lower(r.region), lower(r.district), lower(r.settlement)>>

\* The order of the keys
KeyLess(ka, kb) ==
    IF ka[1] # kb[1] THEN StrLess(ka[1], kb[1])
    ELSE IF ka[2] # kb[2] THEN StrLess(ka[2], kb[2])
    ELSE StrLess(ka[3], kb[3])

\* sort_values(by=[...], key=str.lower): a stable sort.  The row at index j
\* goes after the rows of smaller key and the earlier rows of equal key.
sort_values(rs) ==
    LET keys == tolist([k \in 1..Len(rs) |-> sort_key(rs[k])])
        place == tolist([j \in 1..Len(rs) |->
                    1 + Cardinality({k \in 1..Len(rs) :
                            \/ KeyLess(keys[k], keys[j])
                            \/ keys[k] = keys[j] /\ k < j})])
    IN  [n \in 1..Len(rs) |-> rs[CHOOSE j \in 1..Len(rs) : place[j] = n]]

\* main, lines 146-151: the rows handed to the writer
\* main, lines 147-149, on every row
normalize_rows(result) ==
    tolist([k \in 1..Len(result) |-> main_normalize(result[k])])

aggregate(frames_) == sort_values(normalize_rows(Concat(frames_)))

(***************************************************************************)
(* Configuration and environment                                           *)
(***************************************************************************)

Krasnodarskij_kraj == <<1050, 1088, 1072, 1089, 1085, 1086, 1076, 1072, 1088, 1089, 1082, 1080, 1081, 32, 1082, 1088, 1072, 1081>>   \* "Краснодарский край"
Respublika_Adygeya == <<1056, 1077, 1089, 1087, 1091, 1073, 1083, 1080, 1082, 1072, 32, 1040, 1076, 1099, 1075, 1077, 1103>>   \* "Республика Адыгея"

\* urlparse(url).path of the first url: "/wiki/%D0%9D%D0%B0...%D0%BA%D1%80%D0%B0%D1%8F"
Path_kraj ==
        <<47, 119, 105, 107, 105, 47, 37, 68, 48, 37, 57, 68, 37, 68, 48,
          37, 66, 48, 37, 68, 49, 37, 56, 49, 37, 68, 48, 37, 66, 53, 37,
          68, 48, 37, 66, 66, 37, 68, 49, 37, 57, 49, 37, 68, 48, 37, 66,
          68, 37, 68, 48, 37, 66, 68, 37, 68, 49, 37, 56, 66, 37, 68, 48,
          37, 66, 53, 95, 37, 68, 48, 37, 66, 70, 37, 68, 49, 37, 56, 51,
          37, 68, 48, 37, 66, 68, 37, 68, 48, 37, 66, 65, 37, 68, 49, 37,
          56, 50, 37, 68, 49, 37, 56, 66, 95, 37, 68, 48, 37, 57, 65, 37,
          68, 49, 37, 56, 48, 37, 68, 48, 37, 66, 48, 37, 68, 49, 37, 56,
          49, 37, 68, 48, 37, 66, 68, 37, 68, 48, 37, 66, 69, 37, 68, 48,
          37, 66, 52, 37, 68, 48, 37, 66, 48, 37, 68, 49, 37, 56, 48, 37,
          68, 49, 37, 56, 49, 37, 68, 48, 37, 66, 65, 37, 68, 48, 37, 66,
          69, 37, 68, 48, 37, 66, 51, 37, 68, 48, 37, 66, 69, 95, 37, 68,
          48, 37, 66, 65, 37, 68, 49, 37, 56, 48, 37, 68, 48, 37, 66, 48,
          37, 68, 49, 37, 56, 70>>

\* urlparse(url).path of the second url: "/wiki/%D0%9D%D0%B0...%D0%B3%D0%B5%D0%B8"
Path_adygeya ==
        <<47, 119, 105, 107, 105, 47, 37, 68, 48, 37, 57, 68, 37, 68, 48,
          37, 66, 48, 37, 68, 49, 37, 56, 49, 37, 68, 48, 37, 66, 53, 37,
          68, 48, 37, 66, 66, 37, 68, 49, 37, 57, 49, 37, 68, 48, 37, 66,
          68, 37, 68, 48, 37, 66, 68, 37, 68, 49, 37, 56, 66, 37, 68, 48,
          37, 66, 53, 95, 37, 68, 48, 37, 66, 70, 37, 68, 49, 37, 56, 51,
          37, 68, 48, 37, 66, 68, 37, 68, 48, 37, 66, 65, 37, 68, 49, 37,
          56, 50, 37, 68, 49, 37, 56, 66, 95, 37, 68, 48, 37, 57, 48, 37,
          68, 48, 37, 66, 52, 37, 68, 49, 37, 56, 66, 37, 68, 48, 37, 66,
          51, 37, 68, 48, 37, 66, 53, 37, 68, 48, 37, 66, 56>>

WIKI_URLS ==
    <<[region |-> Krasnodarskij_kraj, path |-> Path_kraj],
      [region |-> Respublika_Adygeya, path |-> Path_adygeya]>>

\* load_html, line 36: re.sub(r'[^a-zA-Z0-9._-]+', '_', parsed.path) + ".html".
\* Every run of characters outside the class becomes one "_": the output
\* has one character for each character of the class and one for the first
\* character of each run.
cache_fname(path) ==
    LET safe == (97..122) \cup (65..90) \cup (48..57) \cup {46, 95, 45}
        kept == {i \in 1..Len(path) :
                    path[i] \in safe \/ i = 1 \/ path[i - 1] \in safe}
        at(n) == CHOOSE i \in kept : Cardinality({j \in kept : j <= i}) = n
    IN  [n \in 1..Cardinality(kept) |->
            IF path[at(n)] \in safe THEN path[at(n)] ELSE 95]
        \o <<46, 104, 116, 109, 108>>

\* The cache file of each entry of WIKI_URLS
cache_file == [k \in 1..Len(WIKI_URLS) |-> cache_fname(WIKI_URLS[k].path)]

\* Python's truth value of args.html_dir
Truthy(d) == d # None /\ d # <<>>

\* A load_html that returns an empty page where the file or the response is
\* missing (as an `except: return ""` around the read would)
load_html_lenient(k, html_dir_, files_, web_) ==
    LET got == IF Truthy(html_dir_) THEN files_[cache_file[k]] ELSE web_[k]
    IN  IF got.ok THEN got ELSE Page(<<>>)

\* load_html: the page, or Missing when open() or requests.get/raise_for_status
\* raises
load_html(k, html_dir_, files_, web_) ==
    IF Truthy(html_dir_)
    THEN files_[cache_file[k]]
    ELSE web_[k]

\* os.path.dirname (posixpath): the path up to its last "/", without the
\* slashes that end it unless it holds nothing else
dirname(p) ==
    LET i == Cardinality({k \in 1..Len(p) : \E j \in k..Len(p) : p[j] = 47})
        bare == {k \in 1..i : p[k] # 47}
    IN  IF bare = {} THEN SubSeq(p, 1, i)
        ELSE SubSeq(p, 1, CHOOSE k \in bare : \A j \in bare : j <= k)

\* main, lines 153-154: the exceptions os.makedirs and ExcelWriter may raise
write_errors(out_) ==
    IF dirname(out_) = <<>> THEN {"FileNotFoundError"}
    ELSE {"OSError", "ImportError"}

\* main, lines 154-155: the exceptions to_excel and the save may raise
save_errors == {"OSError", "IllegalCharacterError"}

\* main, line 157: what the print of the closing message can raise
print_errors == {"UnicodeEncodeError", "OSError"}

\* The files a write of the rows rs may leave when it fails: what the file
\* holds is not defined, any part of the rows from the first on
partial_files(rs) == {Partial(SubSeq(rs, 1, n)) : n \in 0..Len(rs)}

\* The default of --out, line 137: "data/settlements.xlsx"
Default_out ==
    <<100, 97, 116, 97, 47, 115, 101, 116, 116, 108, 101, 109, 101, 110, 116, 115, 46, 120, 108, 115, 120>>

\* A path without directory part: "settlements.xlsx"
Bare_out == <<115, 101, 116, 116, 108, 101, 109, 101, 110, 116, 115, 46, 120, 108, 115, 120>>

\* The paths the run is given as --out
OutPaths == {Default_out, Bare_out}

\* The exception load_html raises
load_error(html_dir_) ==
    IF Truthy(html_dir_) THEN "FileNotFoundError" ELSE "RequestException"

(***************************************************************************)
(* Texts of the pages the model reads                                      *)
(***************************************************************************)

Sochi == <<1057, 1086, 1095, 1080>>                               \* "Сочи"
Adler == <<1040, 1076, 1083, 1077, 1088>>                        \* "Адлер"
Adler_fn == <<1040, 1076, 1083, 1077, 1088, 91, 50, 93>>         \* "Адлер[2]"
Sochi_gorod == <<1057, 1086, 1095, 1080, 32, 40, 1075, 1086, 1088, 1086, 1076, 41>>   \* "Сочи (город)"
Footnote == <<91, 49, 93>>                                        \* "[1]"
Dash_fn == <<8212, 32, 91, 50, 93>>                              \* "— [2]"
Gorodskoj_okrug_Sochi ==
    <<1043, 1086, 1088, 1086, 1076, 1089, 1082, 1086, 1081, 32, 1086, 1082, 1088, 1091, 1075, 32, 1057, 1086, 1095, 1080>>   \* "Городской округ Сочи"
Gorod_Sochi == <<1075, 1086, 1088, 1086, 1076, 32, 1057, 1086, 1095, 1080>>   \* "город Сочи"
Nomer == <<8470>>                                          \* "№"
Naselyonnyj_punkt ==
    <<1053, 1072, 1089, 1077, 1083, 1105, 1085, 1085, 1099, 1081, 32, 1087, 1091, 1085, 1082, 1090>>   \* "Населённый пункт"
Naselenie == <<1053, 1072, 1089, 1077, 1083, 1077, 1085, 1080, 1077>>   \* "Население"
Spisok == <<1057, 1087, 1080, 1089, 1086, 1082, 32, 1085, 1072, 1089, 1077, 1083, 1105, 1085, 1085, 1099, 1093, 32, 1087, 1091, 1085, 1082, 1090, 1086, 1074>>   \* "Список населённых пунктов"
N1 == <<49>>                                                \* "1"
N2 == <<50>>                                                \* "2"
N500000 == <<53, 48, 48, 48, 48, 48>>                       \* "500000"
N50000 == <<53, 48, 48, 48, 48>>                            \* "50000"

\* The table of the offline scenario: header cells №, Населённый пункт,
\* Население and two rows, without a caption.
ScenarioTable ==
    Table(<<>>, Nomer, <<Nomer, Naselyonnyj_punkt, Naselenie>>,
          <<<<N1, Sochi, N500000>>, <<N2, Adler_fn, N50000>>>>, TRUE)

\* A captioned one-column table with an annotated name, a lone footnote
\* marker and a dash carrying a footnote marker.
NameTable ==
    Table(Spisok, Nazvanie, <<Nazvanie>>,
          <<<<Sochi>>, <<Sochi_gorod>>, <<Footnote>>, <<Dash_fn>>>>, TRUE)

\* A list of two names, one with a footnote marker.
NameList == Ul(<<Sochi, Adler_fn>>)

MainHeadings == {H3(Gorodskoj_okrug_Sochi), H3(Gorod_Sochi)}

MainBodies == {ScenarioTable, NameTable, NameList}

\* Most tables and lists under the heading of a page the run is given
MaxBody == 1

SeqsUpTo(S, n) == UNION {[1..k -> S] : k \in 0..n}

\* The pages the run is given: without element, or an h3 and the tables and
\* lists that follow it
MainDocs ==
    {<<>>} \cup {<<h>> \o b : h \in MainHeadings, b \in SeqsUpTo(MainBodies, MaxBody)}

\* None, "" and "html"
HtmlDirs == {None, <<>>, <<104, 116, 109, 108>>}

FileNames == {cache_file[k] : k \in 1..Len(WIKI_URLS)}

Idle == "idle"

(***************************************************************************)
(* The run of main                                                         *)
(***************************************************************************)

column_vars == <<candidates, col>>
normalize_vars == <<raw, norm, passes>>
harvest_vars == <<soup, hpc, pairs, seg, tab, rows>>
main_vars == <<out, html_dir, files, web, pc, idx, frames, out_file, err, loaded>>
studies == <<column_vars, normalize_vars, harvest_vars>>

ColumnIdle == candidates = Idle /\ col = Idle
NormalizeIdle == raw = Idle /\ norm = Idle /\ passes = Idle
HarvestIdle ==
    /\ soup = Idle /\ hpc = Idle /\ pairs = Idle
    /\ seg = Idle /\ tab = Idle /\ rows = Idle
MainIdle ==
    /\ out = Idle /\ html_dir = Idle /\ files = Idle /\ web = Idle /\ pc = Idle /\ idx = Idle
    /\ frames = Idle /\ out_file = Idle /\ err = Idle /\ loaded = Idle

Init ==
    /\ out \in OutPaths
    /\ html_dir \in HtmlDirs
    /\ \E d \in [1..Len(WIKI_URLS) -> {Page(doc) : doc \in MainDocs} \cup {Missing}] :
        /\ files = [f \in FileNames |->
                        IF Truthy(html_dir)
                        THEN d[CHOOSE k \in 1..Len(WIKI_URLS) : cache_file[k] = f]
                        ELSE Missing]
        /\ web = [k \in 1..Len(WIKI_URLS) |->
                        IF Truthy(html_dir) THEN Missing ELSE d[k]]
    /\ pc = "loop"
    /\ idx = 1
    /\ frames = <<>>
    /\ out_file = Absent
    /\ err = "None"
    /\ loaded = <<>>
    /\ ColumnIdle /\ NormalizeIdle /\ HarvestIdle

\* main, lines 142-144: one iteration of the loop, load_html returns
MainHarvest ==
    /\ pc = "loop"
    /\ idx <= Len(WIKI_URLS)
    /\ load_html(idx, html_dir, files, web).ok
    /\ frames' = Append(frames,
                    harvest_region(WIKI_URLS[idx].region,
                                   load_html(idx, html_dir, files, web).html))
    /\ loaded' = Append(loaded, idx)
    /\ idx' = idx + 1
    /\ UNCHANGED <<out, html_dir, files, web, pc, out_file, err, studies>>

\* A loop that skips a region whose page cannot be loaded and goes on
MainLoadSkips ==
    /\ pc = "loop"
    /\ idx <= Len(WIKI_URLS)
    /\ ~load_html(idx, html_dir, files, web).ok
    /\ loaded' = Append(loaded, idx)
    /\ frames' = Append(frames, <<>>)
    /\ idx' = idx + 1
    /\ UNCHANGED <<out, html_dir, files, web, pc, out_file, err, studies>>

\* main, lines 142-143: load_html raises; nothing catches the exception
MainLoadFails ==
    /\ pc = "loop"
    /\ idx <= Len(WIKI_URLS)
    /\ ~load_html(idx, html_dir, files, web).ok
    /\ loaded' = Append(loaded, idx)
    /\ pc' = "failed"
    /\ err' = load_error(html_dir)
    /\ UNCHANGED <<out, html_dir, files, web, idx, frames, out_file, studies>>

\* main, lines 146-154: the frames hold a row, and os.makedirs raises
\* (FileNotFoundError when args.out has no directory part, an OSError of the
\* file system otherwise) or the making of the ExcelWriter does (an OSError
\* on opening the file, ImportError without openpyxl); nothing catches the
\* exception and no file is made
MainWriteFails ==
    /\ pc = "loop"
    /\ idx > Len(WIKI_URLS)
    /\ Concat(frames) # <<>>
    /\ pc' = "failed"
    /\ err' \in write_errors(out)
    /\ UNCHANGED <<out, html_dir, files, web, idx, frames, out_file, loaded, studies>>

\* main, lines 146-155: the frames hold a row and ExcelWriter has opened the
\* file at args.out; to_excel, or the save on leaving the with block, raises
\* (an OSError of the file system, an error of openpyxl on a cell).  Nothing
\* catches the exception; the file stays, with what had reached it.
MainSaveFails ==
    /\ pc = "loop"
    /\ idx > Len(WIKI_URLS)
    /\ Concat(frames) # <<>>
    /\ dirname(out) # <<>>
    /\ pc' = "failed"
    /\ err' \in save_errors
    /\ out_file' \in partial_files(aggregate(frames))
    /\ UNCHANGED <<out, html_dir, files, web, idx, frames, loaded, studies>>

\* main, lines 146-157: the frames hold a row and the workbook has been
\* written whole; the print of line 157 raises (UnicodeEncodeError on a
\* standard output whose encoding has no Cyrillic, an OSError of a closed
\* pipe).  Nothing catches the exception; the file stays, whole.
MainPrintFails ==
    /\ pc = "loop"
    /\ idx > Len(WIKI_URLS)
    /\ Concat(frames) # <<>>
    /\ dirname(out) # <<>>
    /\ out_file' = Written(aggregate(frames))
    /\ pc' = "failed"
    /\ err' \in print_errors
    /\ UNCHANGED <<out, html_dir, files, web, idx, frames, loaded, studies>>

\* main, lines 146-157: the frames hold a row; aggregate, write and report
MainWrite ==
    /\ pc = "loop"
    /\ idx > Len(WIKI_URLS)
    /\ Concat(frames) # <<>>
    /\ dirname(out) # <<>>
    /\ out_file' = Written(aggregate(frames))
    /\ pc' = "done"
    /\ UNCHANGED <<out, html_dir, files, web, idx, frames, err, loaded, studies>>

\* A main that writes the sheet with its header row alone when no frame
\* holds a row
MainWritesEmpty ==
    /\ pc = "loop"
    /\ idx > Len(WIKI_URLS)
    /\ Concat(frames) = <<>>
    /\ out_file' = Written(<<>>)
    /\ pc' = "done"
    /\ UNCHANGED <<out, html_dir, files, web, idx, frames, err, loaded, studies>>

\* main, lines 146-147: every frame is empty, so the concatenation has no
\* column and result["Район"] raises KeyError
MainEmpty ==
    /\ pc = "loop"
    /\ idx > Len(WIKI_URLS)
    /\ Concat(frames) = <<>>
    /\ pc' = "failed"
    /\ err' = "KeyError"
    /\ UNCHANGED <<out, html_dir, files, web, idx, frames, out_file, loaded, studies>>

Next ==
    \/ MainHarvest \/ MainLoadFails
    \/ MainWriteFails \/ MainSaveFails \/ MainPrintFails \/ MainWrite
    \/ MainEmpty

Spec == Init /\ [][Next]_vars

(***************************************************************************)
(* Properties of the run of main                                           *)
(***************************************************************************)

\* C1: every row written has a non-empty district and a settlement that is
\* neither empty nor the dash placeholder.
C1_RowsNamed ==
    out_file.exists =>
        \A k \in 1..Len(out_file.rows) :
            /\ out_file.rows[k].district # <<>>
            /\ out_file.rows[k].settlement # <<>>
            /\ out_file.rows[k].settlement # Dash

\* C2: the rows written hold no two identical (region, district, settlement)
\* triples.
C2_NoDuplicateRows ==
    out_file.exists =>
        \A j, k \in 1..Len(out_file.rows) :
            j # k => out_file.rows[j] # out_file.rows[k]

\* The page of the offline scenario
ScenarioPage == Page(<<H3(Gorodskoj_okrug_Sochi), ScenarioTable>>)

\* The cache directory holds the scenario's page for region k and no file
\* for any other region.
ScenarioOnly(k) ==
    /\ Truthy(html_dir)
    /\ files[cache_file[k]] = ScenarioPage
    /\ \A j \in 1..Len(WIKI_URLS) : j # k => files[cache_file[j]] = Missing

\* The cache directory holds the scenario's page for region k and a page
\* without elements for every other region.
ScenarioAndEmpty(k) ==
    /\ Truthy(html_dir)
    /\ files[cache_file[k]] = ScenarioPage
    /\ \A j \in 1..Len(WIKI_URLS) : j # k => files[cache_file[j]] = Page(<<>>)

\* C4 as stated: in the offline scenario the run yields exactly the records
\* (region, "Сочи", "Сочи") and (region, "Сочи", "Адлер").
C4_ScenarioYieldsTwoRecords ==
    \A k \in 1..Len(WIKI_URLS) :
        (ScenarioOnly(k) /\ pc # "loop") =>
            /\ out_file.exists
            /\ {out_file.rows[n] : n \in 1..Len(out_file.rows)} =
                    {Row(WIKI_URLS[k].region, Sochi, Sochi),
                     Row(WIKI_URLS[k].region, Sochi, Adler)}

\* C4 amended: in the offline scenario the run yields no record and writes
\* no output.  With a cached page for one region only it ends at the first
\* region without a cache file, with the error of the missing file; and with
\* an element-less cached page for the other region it ends with the failure
\* of the empty result, the scenario's table not being taken as a table of
\* settlements (its first header cell is "№" and it has no caption).
C4_ScenarioYieldsNothing ==
    \A k \in 1..Len(WIKI_URLS) :
        /\ (ScenarioOnly(k) /\ pc # "loop") =>
                /\ pc = "failed"
                /\ err = "FileNotFoundError"
                /\ ~out_file.exists
                /\ Concat(frames) = <<>>
                /\ loaded # <<>>
                /\ loaded[Len(loaded)] # k
        /\ (ScenarioAndEmpty(k) /\ pc # "loop") =>
                /\ pc = "failed"
                /\ err = "KeyError"
                /\ ~out_file.exists

\* C4 witness: the scenario's run has ended, the scenario's page was read.
C4_Witness ==
    /\ ScenarioOnly(1)
    /\ pc = "failed"
    /\ loaded = <<1, 2>>

\* C5: when all regions are processed and no frame holds a row, the run
\* ends with the failure of the empty result (the KeyError of line 147) and
\* no file is made at args.out; a file exists there, whole or partial, only
\* when some frame holds a row.
C5_EmptyResultFails ==
    /\ (idx > Len(WIKI_URLS) /\ Concat(frames) = <<>>) =>
            /\ ~out_file.exists
            /\ pc = "loop" \/ (pc = "failed" /\ err = "KeyError")
            /\ pc = "loop" => (ENABLED MainEmpty /\ ~ENABLED MainWrite)
    /\ out_file.exists => Concat(frames) # <<>>

\* C5 witness: both regions loaded, no row, the run has failed.
C5_Witness ==
    /\ loaded = <<1, 2>>
    /\ Concat(frames) = <<>>
    /\ pc = "failed"
    /\ err = "KeyError"

\* C6: regions are loaded in list order, one at a time; a region whose load
\* fails is the last one loaded, the run has failed with the load's error,
\* and the output file is not written.
C6_LoadFailureFatal ==
    /\ loaded = [k \in 1..Len(loaded) |-> k]
    /\ Len(frames) <= Len(loaded)
    /\ \A k \in 1..Len(loaded) :
            ~load_html(k, html_dir, files, web).ok =>
                /\ k = Len(loaded)
                /\ Len(frames) = k - 1
                /\ pc = "failed"
                /\ err = load_error(html_dir)
                /\ ~out_file.exists
                /\ ~ENABLED Next

\* C6 witness: the first region was harvested with rows, the second failed
\* to load.
C6_Witness ==
    /\ loaded = <<1, 2>>
    /\ Len(frames) = 1
    /\ frames[1] # <<>>
    /\ pc = "failed"
    /\ err = "RequestException"

(***************************************************************************)
(* Column study: settle_column_name on every short list of headers         *)
(***************************************************************************)

NASELYONNYE_PUNKTY ==
    <<32, 1053, 1040, 1057, 1045, 1051, 1025, 1053, 1053, 1067, 1045, 32, 1055, 1059, 1053, 1050, 1058, 1067, 32>>   \* " НАСЕЛЁННЫЕ ПУНКТЫ "
Punkt == <<1055, 1091, 1085, 1082, 1090>>                  \* "Пункт"
Nazvanie_sela ==
    <<1053, 1072, 1079, 1074, 1072, 1085, 1080, 1077, 32, 1089, 1077, 1083, 1072>>   \* "Название села"

HeaderTexts ==
    {Nomer, Naselenie, Naselyonnyj_punkt, NASELYONNYE_PUNKTY, Nazvanie,
     Naimenovanie, Punkt, Nazvanie_sela}

\* Most columns of a header list
MaxColumns == 3

Unset == <<-2>>

InitColumns ==
    /\ candidates \in SeqsUpTo(HeaderTexts, MaxColumns) \ {<<>>}
    /\ col = Unset
    /\ MainIdle /\ NormalizeIdle /\ HarvestIdle

\* harvest_region, line 112: the call of settle_column_name
SettleColumn ==
    /\ col = Unset
    /\ col' = settle_column_name(candidates)
    /\ UNCHANGED <<candidates, main_vars, normalize_vars, harvest_vars>>

NextColumns == SettleColumn

SpecColumns == InitColumns /\ [][NextColumns]_vars

\* The header holds both the "насел" stem and the "пункт" stem.
Compound(c) ==
    Contains(lower(c), nasel) /\ Contains(lower(c), punkt)

\* C3: when some header is a two-token compound match, the header returned
\* is one, whatever precedes it; the result is never "no match".
C3_CompoundFirst ==
    (col # Unset /\ \E k \in 1..Len(candidates) : Compound(candidates[k])) =>
        (col # None /\ Compound(col))

(***************************************************************************)
(* Normalisation study: one heading text and one cell or list item, taken  *)
(* through the transforms of harvest_region and main, then through the     *)
(* same transforms again                                                   *)
(***************************************************************************)

\* Pieces of heading texts: "город ", "город-курорт ", "городкурорт ", "Сочи",
\* " (округ)", "# "
TitleTokens ==
    {<<1075, 1086, 1088, 1086, 1076, 32>>,
     <<1075, 1086, 1088, 1086, 1076, 1082, 1091, 1088, 1086, 1088, 1090, 32>>,
     <<1075, 1086, 1088, 1086, 1076, 45, 1082, 1091, 1088, 1086, 1088, 1090, 32>>,
     Sochi,
     <<32, 40, 1086, 1082, 1088, 1091, 1075, 41>>,
     <<35, 32>>}

\* Pieces of cell and item texts: "Сочи", " (село)", "[1]", "—", " "
NameTokens ==
    {Sochi,
     <<32, 40, 1089, 1077, 1083, 1086, 41>>,
     Footnote,
     Dash,
     <<32>>}

\* Most pieces of the heading and the name of a record together
MaxTokens == 4

\* Most passes of the transforms over a record
MaxPasses == 2

\* The texts made of at most n pieces
Texts(tokens, n) == {Concat(s) : s \in SeqsUpTo(tokens, n)}

\* The records a page can hold: get_text(" ", strip=True) gives a heading
\* text without outer white space
RawRecords ==
    UNION {
        {[kind |-> kind, title |-> title, text |-> text] :
            kind \in {"cell", "item"},
            title \in {x \in Texts(TitleTokens, n) : strip(x) = x},
            text \in Texts(NameTokens, MaxTokens - n)} : n \in 0..MaxTokens}

\* The rows one heading with one table cell, or with one list item, yields:
\* extract_tables_by_h3 and harvest_region, then main's lines 147-149
normalize_record(kind, region_name, title, text) ==
    LET page == <<H3(title),
                  IF kind = "cell"
                  THEN Table(Spisok_nasel, None, <<Nazvanie>>, <<<<text>>>>, TRUE)
                  ELSE Ul(<<text>>)>>
    IN  normalize_rows(harvest_region(region_name, page))

InitNormalize ==
    /\ raw \in RawRecords
    /\ norm = <<>>
    /\ passes = 0
    /\ MainIdle /\ ColumnIdle /\ HarvestIdle

\* The first pass: the record as the run writes it
Normalize ==
    /\ passes = 0
    /\ norm' = <<normalize_record(raw.kind, Krasnodarskij_kraj, raw.title, raw.text)>>
    /\ passes' = 1
    /\ UNCHANGED <<raw, main_vars, column_vars, harvest_vars>>

\* A later pass: the written record, read as heading and name, goes through
\* the transforms again
Renormalize ==
    /\ passes >= 1
    /\ passes < MaxPasses
    /\ LET last == norm[Len(norm)]
       IN  norm' = Append(norm,
                IF last = <<>> THEN <<>>
                ELSE normalize_record(raw.kind, last[1].region,
                                      last[1].district, last[1].settlement))
    /\ passes' = passes + 1
    /\ UNCHANGED <<raw, main_vars, column_vars, harvest_vars>>

NextNormalize == Normalize \/ Renormalize

SpecNormalize == InitNormalize /\ [][NextNormalize]_vars

\* C7: normalising an already normalised record leaves it unchanged.
C7_Idempotent ==
    \A k \in 2..Len(norm) : norm[k - 1] # <<>> => norm[k] = norm[k - 1]

City_ == gorod \o <<32>>                    \* "город "
Resort_ == gorod \o <<45>> \o kurort \o <<32>>    \* "город-курорт "

\* C8 as stated: no district written begins with "город-курорт " or
\* "город ", and none ends with a parenthetical suffix.
C8_DistrictBare ==
    (passes >= 1 /\ norm[1] # <<>>) =>
        LET d == norm[1][1].district
        IN  /\ ~MatchAt(d, 1, City_)
            /\ ~MatchAt(d, 1, Resort_)
            /\ ~(/\ d # <<>>
                 /\ d[Len(d)] = 41
                 /\ \E i \in 2..Len(d) : d[i] = 40 /\ IsSpace(d[i - 1]))

\* t without w and the white space after it, when t begins with w followed
\* by white space
WithoutLeading(t, w) ==
    IF MatchAt(t, 1, w) /\ Len(t) > Len(w) /\ IsSpace(t[Len(w) + 1])
    THEN SubSeq(t, SkipWhile(t, Len(w) + 1, WhiteSpace), Len(t))
    ELSE t

\* C8 amended: of the heading text (without leading "#" and white space) one
\* leading "город-курорт " (or "городкурорт ") and then one leading "город "
\* are removed, and
\* nothing else: the district written is the rest of the heading, with any
\* further prefix and any parenthetical suffix kept ("город Сочи" becomes
\* "Сочи", "Сочи (округ)" stays).
C8_DistrictPrefixOnce ==
    (passes >= 1 /\ norm[1] # <<>>) =>
        LET d == norm[1][1].district
            h == SubSeq(raw.title,
                        SkipWhile(raw.title, 1, WhiteSpace \cup {35}),
                        Len(raw.title))
            r == IF MatchAt(h, 1, gorod \o <<45>>)
                 THEN WithoutLeading(h, gorod \o <<45>> \o kurort)
                 ELSE WithoutLeading(h, gorod \o kurort)
        IN  /\ d = WithoutLeading(r, gorod)
            /\ (h # <<>> /\ h[Len(h)] = 41) => (d # <<>> /\ d[Len(d)] = 41)

\* C8 witness: "город Сочи (округ)" is written as "Сочи (округ)".
C8_Witness ==
    /\ passes = 1
    /\ raw.title = City_ \o Sochi \o <<32, 40, 1086, 1082, 1088, 1091, 1075, 41>>
    /\ norm[1] # <<>>
    /\ norm[1][1].district = Sochi \o <<32, 40, 1086, 1082, 1088, 1091, 1075, 41>>

(***************************************************************************)
(* Harvest study: harvest_region on one page, frame by frame and list by   *)
(* list                                                                    *)
(***************************************************************************)

Tip == <<1058, 1080, 1087>>          \* "Тип"
Col0 == <<48>>                       \* "0"
Col1 == <<49>>                       \* "1"

\* A captioned table without header cells: pandas numbers its columns.
PlainTable ==
    Table(Spisok, None, <<Col0, Col1>>,
          <<<<N1, Sochi>>, <<N2, Adler_fn>>>>, TRUE)

\* A captioned table of one numbered column.
OneColumnTable == Table(Spisok, None, <<Col0>>, <<<<Sochi>>>>, TRUE)

\* A table taken for its first header cell "Население", no header of which
\* names a settlement column.
PopulationTable ==
    Table(<<>>, Naselenie, <<Naselenie, Tip>>, <<<<N50000, Adler>>>>, TRUE)

\* A captioned table pd.read_html cannot read.
BrokenTable == Table(Spisok, None, <<>>, <<>>, FALSE)

\* An item of 101 characters
LongItem == [k \in 1..(MaxItemLen + 1) |-> 1072]

\* A list of a dash, a long sentence and a blank item.
JunkList == Ul(<<Dash, LongItem, <<32>>>>)

\* A list whose only item is blank.
BlankList == Ul(<<<<32>>>>)

HarvestElements ==
    {H2, P, H3(Gorodskoj_okrug_Sochi), H3(Gorod_Sochi),
     PlainTable, OneColumnTable, PopulationTable, ScenarioTable, NameTable,
     BrokenTable, NameList, JunkList, BlankList}

\* Longest page (in elements) the harvest study reads
MaxSiblings == 3

InitHarvest ==
    /\ soup \in SeqsUpTo(HarvestElements, MaxSiblings)
    /\ hpc = "extract"
    /\ pairs = <<>>
    /\ seg = 0
    /\ tab = 0
    /\ rows = <<>>
    /\ MainIdle /\ ColumnIdle /\ NormalizeIdle

StudyRegion == WIKI_URLS[1].region

\* harvest_region, line 106
Extract ==
    /\ hpc = "extract"
    /\ pairs' = extract_tables_by_h3(soup)
    /\ seg' = 1
    /\ tab' = 1
    /\ hpc' = "harvest"
    /\ UNCHANGED <<soup, rows, main_vars, column_vars, normalize_vars>>

\* harvest_region, lines 111-123: one iteration of  for df in tables
HarvestTable ==
    /\ hpc = "harvest"
    /\ seg <= Len(pairs)
    /\ tab <= Len(pairs[seg].dfs)
    /\ rows' = rows \o table_rows(StudyRegion,
                                  normalize_unit_title(pairs[seg].title),
                                  pairs[seg].dfs[tab])
    /\ tab' = tab + 1
    /\ UNCHANGED <<soup, hpc, pairs, seg, main_vars, column_vars, normalize_vars>>

\* harvest_region, lines 124-130: one iteration of  for items in ul_lists
HarvestList ==
    /\ hpc = "harvest"
    /\ seg <= Len(pairs)
    /\ tab > Len(pairs[seg].dfs)
    /\ tab <= Len(pairs[seg].dfs) + Len(pairs[seg].ul_lists)
    /\ rows' = rows \o list_rows(StudyRegion,
                                 normalize_unit_title(pairs[seg].title),
                                 pairs[seg].ul_lists[tab - Len(pairs[seg].dfs)])
    /\ tab' = tab + 1
    /\ UNCHANGED <<soup, hpc, pairs, seg, main_vars, column_vars, normalize_vars>>

\* harvest_region, line 109: the next (title, tables, lists)
NextSegment ==
    /\ hpc = "harvest"
    /\ seg <= Len(pairs)
    /\ tab > Len(pairs[seg].dfs) + Len(pairs[seg].ul_lists)
    /\ seg' = seg + 1
    /\ tab' = 1
    /\ UNCHANGED <<soup, hpc, pairs, rows, main_vars, column_vars, normalize_vars>>

\* harvest_region, lines 132-133
Return ==
    /\ hpc = "harvest"
    /\ seg > Len(pairs)
    /\ rows' = drop_duplicates(rows)
    /\ hpc' = "done"
    /\ UNCHANGED <<soup, pairs, seg, tab, main_vars, column_vars, normalize_vars>>

NextHarvest == Extract \/ HarvestTable \/ HarvestList \/ NextSegment \/ Return

SpecHarvest == InitHarvest /\ [][NextHarvest]_vars

\* The frame-by-frame harvest returns what harvest_region returns in main.
HarvestAgrees ==
    hpc = "done" => rows = harvest_region(StudyRegion, soup)

\* The names the cells of a column give: trimmed, empty and dash cells left
\* out, footnote markers removed
CleanCells(vals) ==
    LET kept == SelectSeq(vals, LAMBDA v : strip(v) # <<>> /\ strip(v) # Dash)
    IN  [k \in 1..Len(kept) |-> strip(sub_footnote(strip(kept[k])))]

\* C9: for a frame without name-like header, the step of the table loop
\* appends the names of column index 1 when the frame has two columns or
\* more, and appends nothing when it has fewer; either way the loop goes on
\* with the next table of the segment.
C9_FallbackColumn ==
    [][HarvestTable =>
        LET df == pairs[seg].dfs[tab]
            unit == normalize_unit_title(pairs[seg].title)
            names == CleanCells([r \in 1..Len(df.data) |-> df.data[r][2]])
        IN  settle_column_name(df.columns) = None =>
                /\ tab' = tab + 1
                /\ seg' = seg
                /\ hpc' = "harvest"
                /\ IF Len(df.columns) >= 2
                   THEN rows' = rows \o [k \in 1..Len(names) |->
                                            Row(StudyRegion, unit, names[k])]
                   ELSE rows' = rows]_vars

\* C9 witness: a one-column frame was skipped and the two-column frame after
\* it gave the names of its second column.
C9_Witness ==
    /\ soup = <<H3(Gorod_Sochi), OneColumnTable, PlainTable>>
    /\ hpc = "harvest"
    /\ seg = 1
    /\ tab = 3
    /\ rows = <<Row(StudyRegion, Gorod_Sochi, Sochi),
                Row(StudyRegion, Gorod_Sochi, Adler)>>

IsHeading(e) == e.name \in {"h2", "h3"}

\* The siblings after the heading at index k, up to the next h2 or h3
SpanOf(s, k) ==
    LET later == {m \in (k + 1)..Len(s) : IsHeading(s[m])}
    IN  SubSeq(s, k + 1,
               IF later = {} THEN Len(s)
               ELSE (CHOOSE m \in later : \A j \in later : m <= j) - 1)

\* The segments of page s when the tables a segment takes are those that
\* satisfy taken: one per h3 in page order, a segment without table and list
\* left out
SegmentsOf(s, taken(_)) ==
    LET heads == SelectSeq([k \in 1..Len(s) |-> k], LAMBDA k : s[k].name = "h3")
        tables(k) == SelectSeq(SpanOf(s, k),
                               LAMBDA e : e.name = "table" /\ taken(e))
        lists(k) == SelectSeq(SpanOf(s, k),
                              LAMBDA e : e.name = "ul" /\ ul_items(e) # <<>>)
        segment(k) ==
            [title |-> s[k].text,
             dfs |-> [n \in 1..Len(tables(k)) |->
                        [columns |-> tables(k)[n].columns,
                         data |-> tables(k)[n].data]],
             ul_lists |-> [n \in 1..Len(lists(k)) |-> ul_items(lists(k)[n])]]
        all == [i \in 1..Len(heads) |-> segment(heads[i])]
    IN  SelectSeq(all, LAMBDA p : p.dfs # <<>> \/ p.ul_lists # <<>>)

\* The names an element gives
NamesOf(e) ==
    IF e.name = "table"
    THEN {table_names([columns |-> e.columns, data |-> e.data])[n] :
            n \in 1..Len(table_names([columns |-> e.columns, data |-> e.data]))}
    ELSE IF e.name = "ul"
    THEN {list_names(ul_items(e))[n] : n \in 1..Len(list_names(ul_items(e)))}
    ELSE {}

\* Every row has the district of an h3 and a name of an element in that
\* h3's span.
RowsAttributed ==
    \A n \in 1..Len(rows) :
        \E k \in 1..Len(soup) :
            /\ soup[k].name = "h3"
            /\ rows[n].district = normalize_unit_title(soup[k].text)
            /\ \E m \in 1..Len(SpanOf(soup, k)) :
                    rows[n].settlement \in NamesOf(SpanOf(soup, k)[m])

\* C10 as stated: the segment of a heading holds every table and every list
\* among the siblings up to the next heading.
C10_EveryTable ==
    hpc # "extract" =>
        /\ pairs = SegmentsOf(soup, LAMBDA e : e.parses)
        /\ RowsAttributed

\* C10 amended: the segment of an h3 holds, of the siblings up to the next h2
\* or h3, every table that is a table of settlements (caption with "Список
\* насел", or first header cell with "Насел", "Название" or "Наименование")
\* and that pandas reads, and every list with a non-blank item; every row has
\* as district the text of its h3 (without leading "#" and white space), no
\* table or list is in two segments, and one outside every span gives no row.
C10_SettlementTables ==
    hpc # "extract" =>
        /\ pairs = SegmentsOf(soup, LAMBDA e : table_cond(e) /\ e.parses)
        /\ RowsAttributed
        /\ \A m \in 1..Len(soup) :
                Cardinality({k \in 1..Len(soup) :
                    /\ soup[k].name = "h3"
                    /\ k < m
                    /\ m <= k + Len(SpanOf(soup, k))}) <= 1
        /\ Cardinality({m \in 1..Len(soup) : soup[m].name \in {"table", "ul"}})
                >= Len(Concat([k \in 1..Len(pairs) |-> pairs[k].dfs]))
                    + Len(Concat([k \in 1..Len(pairs) |-> pairs[k].ul_lists]))

\* C10 witness: a table before the first h3 gave nothing, the table after
\* the h3 gave its rows.
C10_Witness ==
    /\ soup = <<PlainTable, H3(Gorod_Sochi), NameTable>>
    /\ hpc = "done"
    /\ Len(pairs) = 1
    /\ Len(pairs[1].dfs) = 1
    /\ rows # <<>>
    /\ \A n \in 1..Len(rows) : rows[n].settlement # Adler

====
